---- MODULE Spec2Model ----
(***************************************************************************)
(* seabird-proxy-plugin: the relay core of src/src/client.rs (reader,      *)
(* bounded queue, writer, routing table) and the SIGHUP reload task of     *)
(* src/src/main.rs.  Every state variable is a function over relay         *)
(* instances so that one module describes one relay (Spec) and two relays  *)
(* attached to the same backend (SpecPair).                                *)
(***************************************************************************)
EXTENDS Naturals, Sequences, FiniteSets, TLC

\* ------------------------------------------------------------------ bounds
\* fresh events the backend stream delivers to a relay
MaxEvents == 1
\* SIGHUP signals handled by the reload task
MaxReloads == 1
\* capacity of the outgoing queue; the program uses 100 (client.rs:104),
\* the model a small capacity so that a full queue is reached
QueueCapacity == 1

\* ghost histories stop growing at this length: MaxEvents + 1 events of three
\* targets each, which only the endless exchange of SpecPair exceeds
MaxHist == (MaxEvents + 1) * 3

\* --------------------------------------------------------------- instances
Relay == {"A", "B"}

\* ClientConfig.tag of each instance
ConfigTag(r) == IF r = "A" THEN "proxy-a" ELSE "proxy-b"

\* ------------------------------------------------------------------ Option
None == <<>>
Some(x) == <<x>>
unwrap_or(o, d) == IF o = None THEN d ELSE o[1]

\* ----------------------------------------------------------- routing table
ChannelTarget(id, user_prefix, user_suffix) ==
    [id |-> id, user_prefix |-> user_prefix, user_suffix |-> user_suffix]

\* BTreeMap::new()
EmptyTable == [c \in {} |-> <<>>]

\* BTreeMap::get
get(map, key) == IF key \in DOMAIN map THEN Some(map[key]) ELSE None

\* #a to #b with a suffix
TableX == "#a" :> << ChannelTarget("#b", None, Some("[x]")) >>
\* #a to #b (with a prefix) and #c, and #b back to #a
TableBC == ("#a" :> << ChannelTarget("#b", Some("~"), None),
                       ChannelTarget("#c", None, None) >>)
           @@ ("#b" :> << ChannelTarget("#a", None, None) >>)

\* the tables read_config can produce in the model
Tables == {TableX, TableBC}

\* tables of two relays that route into each other's source channel
PairTable(r) == IF r = "A" THEN "#x" :> << ChannelTarget("#y", None, None) >>
                           ELSE "#y" :> << ChannelTarget("#x", None, None) >>

\* ------------------------------------------------------------------ events
NoTags == {}
SkipTags == { <<"proxy/skip", "1">> }

\* the variants of the last arm of handle_event's match
\* (faulty variant: PrivateMessage left out of the arm)
PrivateVariants_Missing == {"PrivateAction", "SendPrivateMessage", "PerformPrivateAction"}
PrivateVariants ==
    {"PrivateMessage", "PrivateAction", "SendPrivateMessage", "PerformPrivateAction"}

Event(variant, tags, source, text, command, arg, sender, inner) ==
    [variant |-> variant, tags |-> tags, source |-> source, text |-> text,
     command |-> command, arg |-> arg, sender |-> sender, inner |-> inner]

Source(c, user) == Some([channel_id |-> c, user |-> user])
Alice == Some([display_name |-> "alice"])
Request(c, text) == Some([channel_id |-> c, text |-> text])

UserEvent(variant, tags, c, arg) ==
    Event(variant, tags, Source(c, Alice), "hi", "ping", arg, "", None)
BackendEvent(variant, tags, sender, inner) ==
    Event(variant, tags, None, "", "", "", sender, inner)

\* the events the backend stream may deliver to relay A under Spec
Events ==
    { UserEvent("Message", NoTags, "#a", ""),
      UserEvent("Message", SkipTags, "#a", ""),
      UserEvent("Message", NoTags, "#b", ""),
      UserEvent("Action", NoTags, "#a", ""),
      UserEvent("Command", NoTags, "#a", ""),
      UserEvent("Command", NoTags, "#a", "1 2"),
      UserEvent("Mention", NoTags, "#a", ""),
      Event("Message", NoTags, None, "hi", "", "", "", None),
      Event("Message", NoTags, Source("#a", None), "hi", "", "", "", None),
      Event("None", NoTags, None, "", "", "", "", None),
      BackendEvent("SendMessage", NoTags, "proxy-a", Request("#a", "hi")),
      BackendEvent("SendMessage", NoTags, "other", Request("#a", "hi")),
      BackendEvent("SendMessage", SkipTags, "other", Request("#a", "hi")),
      BackendEvent("SendMessage", NoTags, "other", None),
      BackendEvent("PerformAction", NoTags, "proxy-a", Request("#a", "hi")),
      BackendEvent("PerformAction", NoTags, "other", Request("#a", "hi")) }
    \cup { UserEvent(v, NoTags, "#a", "") :
              v \in {"PrivateMessage", "PrivateAction",
                     "SendPrivateMessage", "PerformPrivateAction"} }


\* ------------------------------------------------------- handle_event (pure)
\* get_current_nick
get_current_nick == "seabird"

\* the format! closures handle_event passes to send_msg, by variant
\* (faulty variant: the suffix placed before the display name)
format_SuffixFirst(e, prefix, suffix) ==
    LET display_name == e.source[1].user[1].display_name
    IN  IF e.variant = "Command"
        THEN prefix \o suffix \o display_name \o ": !" \o e.command
               \o (IF e.arg # "" THEN " " \o e.arg ELSE "")
        ELSE prefix \o suffix \o display_name \o ": " \o e.text
format(e, prefix, suffix) ==
    LET display_name == e.source[1].user[1].display_name
    IN  CASE e.variant = "Action" ->
               "* " \o prefix \o display_name \o suffix \o " " \o e.text
          [] e.variant = "Command" ->
               IF e.arg # ""
               THEN prefix \o display_name \o suffix \o ": !" \o e.command
                      \o " " \o e.arg
               ELSE prefix \o display_name \o suffix \o ": !" \o e.command
          [] e.variant = "Mention" ->
               prefix \o display_name \o suffix \o ": " \o get_current_nick
                      \o ": " \o e.text
          [] OTHER ->
               prefix \o display_name \o suffix \o ": " \o e.text

\* the sender check of the SendMessage / PerformAction arms
\* (faulty variant: no sender is taken for the relay itself)
IsOwnSender_Never(sender, tg) == FALSE
IsOwnSender(sender, tg) == sender = tg

\* What handle_event does with an event, up to its first queue interaction:
\* "ok" (returns Ok without sending), "err" (returns Err, which run_reader
\* logs), or one of the three senders with the source channel it looks up.
handle_event(e, tg) ==
    CASE e.variant \in PrivateVariants -> [act |-> "ok", source |-> ""]
      [] e.variant \in {"SendMessage", "PerformAction"} ->
           IF IsOwnSender(e.sender, tg) THEN [act |-> "ok", source |-> ""]
           ELSE IF e.inner = None THEN [act |-> "err", source |-> ""]
           ELSE [act |-> IF e.variant = "SendMessage" THEN "send_raw_msg"
                                                      ELSE "perform_raw_action",
                 source |-> e.inner[1].channel_id]
      [] OTHER ->
           IF e.source = None THEN [act |-> "err", source |-> ""]
           ELSE IF e.source[1].user = None THEN [act |-> "err", source |-> ""]
           ELSE [act |-> "send_msg", source |-> e.source[1].channel_id]

\* The OutgoingMessage built for one target.  origin, ev and ti are ghost
\* fields: the event it was built for, that event's number in the reader's
\* stream, and the target's position in the target list.
OutgoingMessage(kind, channel_id, text, origin, ev, ti) ==
    [kind |-> kind, channel_id |-> channel_id, text |-> text,
     origin |-> origin, ev |-> ev, ti |-> ti]

\* body of the for loop of send_msg / send_raw_msg / perform_raw_action
BuildMessage(e, act, channel, ev, ti) ==
    CASE act = "send_msg" ->
           OutgoingMessage("Message", channel.id,
                           format(e, unwrap_or(channel.user_prefix, ""),
                                     unwrap_or(channel.user_suffix, "")), e, ev, ti)
      [] act = "send_raw_msg" ->
           OutgoingMessage("Message", channel.id, e.inner[1].text, e, ev, ti)
      [] OTHER ->
           OutgoingMessage("Action", channel.id, e.inner[1].text, e, ev, ti)

\* the target the loop visits in its i-th iteration
\* (faulty variant: the list walked from its end)
IterTarget_Reversed(channels, i) == Len(channels) + 1 - i
IterTarget(channels, i) == i

\* --------------------------------------------------------------- the state
VARIABLES
    live,              \* the relay instances that run
    backend_echo,      \* the backend reports each call as a Send/Perform event
    stream,            \* events the backend has queued for a relay's stream
    budget,            \* fresh events the backend may still deliver
    proxied_channels,  \* Client.proxied_channels (the map behind the RwLock)
    rw_readers,        \* read guards of the RwLock that are held
    inner_owner,       \* holder of the Mutex around the backend client
    queue,             \* the mpsc channel of run
    run_result,        \* "running", or "err" once run has returned
    rpc, cur, idx, pending,        \* run_reader: position, event, loop index, message in send
    wpc, wmsg, in_flight,          \* run_writer: position, message received, call awaited
    reload_pc, reload_arg, nreload, \* reload task of main
    nev, built, calls, call_failed, installed,  \* ghost histories
    taken,             \* ghost: the events taken from those the backend had queued
    reader_exit        \* ghost: "none", or where run_reader returned its Err

vars == << live, backend_echo, stream, budget, proxied_channels, rw_readers,
           inner_owner, queue, run_result, rpc, cur, idx, pending, wpc, wmsg,
           in_flight, reload_pc, reload_arg, nreload,
           nev, built, calls, call_failed, installed, taken, reader_exit >>

env_vars == << live, backend_echo >>
reader_vars == << rpc, cur, idx, pending, nev, built, rw_readers, taken, reader_exit >>
writer_vars == << wpc, wmsg, in_flight, calls, call_failed >>
reload_vars == << reload_pc, reload_arg, nreload, proxied_channels, installed >>

NoEvent == Event("None", NoTags, None, "", "", "", "", None)
NoMessage == OutgoingMessage("", "", "", NoEvent, 0, 0)

\* ghost append, saturating at MaxHist
Record(h, x) == IF Len(h) < MaxHist THEN Append(h, x) ELSE h

\* state of the instances after Client::new, with `first` installed by main
InitWith(first) ==
    /\ proxied_channels = first
    /\ rw_readers = [r \in Relay |-> 0]
    /\ inner_owner = [r \in Relay |-> "none"]
    /\ queue = [r \in Relay |-> <<>>]
    /\ run_result = [r \in Relay |-> "running"]
    /\ rpc = [r \in Relay |-> "start"]
    /\ cur = [r \in Relay |-> NoEvent]
    /\ idx = [r \in Relay |-> 0]
    /\ pending = [r \in Relay |-> NoMessage]
    /\ wpc = [r \in Relay |-> "recv"]
    /\ wmsg = [r \in Relay |-> NoMessage]
    /\ in_flight = [r \in Relay |-> "none"]
    /\ reload_pc = [r \in Relay |-> "idle"]
    /\ reload_arg = [r \in Relay |-> EmptyTable]
    /\ nreload = [r \in Relay |-> 0]
    /\ nev = [r \in Relay |-> 0]
    /\ built = [r \in Relay |-> <<>>]
    /\ calls = [r \in Relay |-> <<>>]
    /\ call_failed = [r \in Relay |-> FALSE]
    /\ installed = [r \in Relay |-> << first[r] >>]
    /\ taken = [r \in Relay |-> <<>>]
    /\ reader_exit = [r \in Relay |-> "none"]

\* one relay, A, fed fresh events by the backend
Init ==
    /\ live = {"A"}
    /\ backend_echo = FALSE
    /\ stream = [r \in Relay |-> <<>>]
    /\ budget = [r \in Relay |-> IF r = "A" THEN MaxEvents ELSE 0]
    /\ \E t \in Tables : InitWith([r \in Relay |-> IF r = "A" THEN t ELSE EmptyTable])

\* ------------------------------------------------------------------- locks
\* RwLock::read is granted unless a writer holds or awaits the lock
ReadGranted(r) == reload_pc[r] # "write"

\* RwLock::write is granted once no read guard is held
\* (faulty variant: the writer does not wait for readers)
WriteGranted_NoWait(r) == TRUE
WriteGranted(r) == rw_readers[r] = 0

\* mpsc::Sender::send completes at once while the channel has a free slot
\* (faulty variant: an unbounded channel)
HasCapacity_Unbounded(q) == TRUE
HasCapacity(q) == Len(q) < QueueCapacity

\* mpsc::Receiver::recv takes the oldest message
\* (faulty variant: the newest message first)
recv_index_Newest(q) == Len(q)
recv_index(q) == 1

RemoveAt(q, i) == SubSeq(q, 1, i - 1) \o SubSeq(q, i + 1, Len(q))

\* the instance runs and run has not returned: the futures try_join has
\* dropped take no further step
\* (faulty variant: the two futures run on as detached tasks)
Running_Detached(r) == r \in live
Running(r) == r \in live /\ run_result[r] = "running"

\* run, given the Result of the future that returned first: try_join ends on
\* an Err and `?` returns it; after an Ok the join waits for the other future
\* (faulty variant: the Err of one future is not propagated)
run_Swallows(res) == "running"
run(res) == IF res = "err" THEN "err" ELSE "running"

\* a MutexGuard of `inner` goes out of scope: at the end of run_reader's block
\* (client.rs:126) and at the end of run_writer's match arm (client.rs:153, 158)
\* (faulty variants: the guard outlives its scope)
drop_reader_guard_Kept(owner) == owner
drop_reader_guard(owner) == "none"
drop_writer_guard_Kept(owner) == owner
drop_writer_guard(owner) == "none"

\* run_reader's treatment of what became of an event: an Err of handle_event
\* is logged, a missing payload warned about, and the loop goes on
\* (faulty variant: the Err is returned with `?`)
loop_continues_Propagates(outcome) == outcome # "err"
loop_continues(outcome) == TRUE

\* the call run_writer makes for a message
\* (faulty variant: the two calls exchanged)
rpc_for_Exchanged(kind) == IF kind = "Action" THEN "send_message" ELSE "perform_action"
rpc_for(kind) == IF kind = "Action" THEN "perform_action" ELSE "send_message"

\* one future of run returns Err: run returns, and try_join drops both
\* futures and their guards
RunFails(r) ==
    /\ run_result' = [run_result EXCEPT ![r] = run("err")]
    /\ inner_owner' = [inner_owner EXCEPT ![r] = "none"]
    /\ rw_readers' = [rw_readers EXCEPT ![r] = 0]

\* -------------------------------------------------------------- run_reader
\* self.inner.lock().await
ReaderLockInner(r) ==
    /\ Running(r) /\ rpc[r] = "start"
    /\ inner_owner[r] = "none"
    /\ inner_owner' = [inner_owner EXCEPT ![r] = "reader"]
    /\ rpc' = [rpc EXCEPT ![r] = "subscribing"]
    /\ UNCHANGED << env_vars, stream, budget, queue, run_result, cur, idx, pending,
                    nev, built, rw_readers, taken, reader_exit, writer_vars,
                    reload_vars >>

\* stream_events(..).await? succeeds; the guard is dropped at the block's end
ReaderSubscribed(r) ==
    /\ Running(r) /\ rpc[r] = "subscribing"
    /\ inner_owner' = [inner_owner EXCEPT ![r] = drop_reader_guard(@)]
    /\ rpc' = [rpc EXCEPT ![r] = "next"]
    /\ UNCHANGED << env_vars, stream, budget, queue, run_result, cur, idx, pending,
                    nev, built, rw_readers, taken, reader_exit, writer_vars,
                    reload_vars >>

\* stream_events(..).await? fails: run_reader returns the error
ReaderSubscribeFails(r) ==
    /\ Running(r) /\ rpc[r] = "subscribing"
    /\ RunFails(r)
    /\ reader_exit' = [reader_exit EXCEPT ![r] = "subscribe"]
    /\ UNCHANGED << env_vars, stream, budget, queue, rpc, cur, idx, pending,
                    nev, built, taken, writer_vars, reload_vars >>

\* the events stream.next() can yield now: the oldest queued one, or a fresh one
Available(r) ==
    IF stream[r] # <<>> THEN {Head(stream[r])}
    ELSE IF budget[r] > 0 THEN Events ELSE {}

\* one turn of the while-let loop up to handle_event's first await that can
\* suspend: the event is taken, classified, and the read guard requested
ReaderNext(r) ==
    /\ Running(r) /\ rpc[r] = "next"
    /\ \E e \in Available(r) :
         LET plan == handle_event(e, ConfigTag(r))
             outcome == IF e.variant = "None" THEN "none" ELSE plan.act
             sends == outcome \notin {"none", "ok", "err"}
         IN  /\ IF stream[r] # <<>>
                THEN stream' = [stream EXCEPT ![r] = Tail(@)] /\ budget' = budget
                ELSE budget' = [budget EXCEPT ![r] = @ - 1] /\ stream' = stream
             /\ cur' = [cur EXCEPT ![r] = e]
             /\ taken' = [taken EXCEPT ![r] = IF stream[r] # <<>> THEN Record(@, e)
                                                                 ELSE @]
             /\ nev' = [nev EXCEPT ![r] = IF @ < MaxHist THEN @ + 1 ELSE @]
             /\ idx' = [idx EXCEPT ![r] = 1]
             /\ IF ~loop_continues(outcome)
                THEN RunFails(r) /\ rpc' = rpc
                ELSE /\ UNCHANGED << run_result, inner_owner >>
                     /\ IF ~sends
                        THEN rpc' = rpc /\ rw_readers' = rw_readers
                        ELSE IF ReadGranted(r)
                        THEN /\ rpc' = [rpc EXCEPT ![r] = "fanout"]
                             /\ rw_readers' = [rw_readers EXCEPT ![r] = @ + 1]
                        ELSE /\ rpc' = [rpc EXCEPT ![r] = "rdlock"]
                             /\ rw_readers' = rw_readers
    /\ UNCHANGED << env_vars, queue, pending, built, reader_exit, writer_vars,
                    reload_vars >>

\* stream.next() yields an error or the end of the stream
ReaderStreamEnds(r) ==
    /\ Running(r) /\ rpc[r] = "next"
    /\ RunFails(r)
    /\ reader_exit' = [reader_exit EXCEPT ![r] = "stream"]
    /\ UNCHANGED << env_vars, stream, budget, queue, rpc, cur, idx, pending,
                    nev, built, taken, writer_vars, reload_vars >>

\* self.proxied_channels.read().await, after waiting for a writer
ReaderAcquireRead(r) ==
    /\ Running(r) /\ rpc[r] = "rdlock"
    /\ ReadGranted(r)
    /\ rpc' = [rpc EXCEPT ![r] = "fanout"]
    /\ rw_readers' = [rw_readers EXCEPT ![r] = @ + 1]
    /\ UNCHANGED << env_vars, stream, budget, inner_owner, queue, run_result, cur,
                    idx, pending, nev, built, taken, reader_exit, writer_vars,
                    reload_vars >>

\* one iteration of `for channel in channels.iter()` under the read guard, or
\* the end of the if-let, where the guard is dropped
ReaderFanout(r) ==
    /\ Running(r) /\ rpc[r] = "fanout"
    /\ LET plan == handle_event(cur[r], ConfigTag(r))
           channels == unwrap_or(get(proxied_channels[r], plan.source), <<>>)
       IN  IF idx[r] > Len(channels)
           THEN /\ rpc' = [rpc EXCEPT ![r] = "next"]
                /\ rw_readers' = [rw_readers EXCEPT ![r] = 0]
                /\ UNCHANGED << idx, pending, built, queue >>
           ELSE LET ti == IterTarget(channels, idx[r])
                    msg == BuildMessage(cur[r], plan.act, channels[ti],
                                        nev[r], ti)
                IN  /\ built' = [built EXCEPT ![r] = Record(@, msg)]
                    /\ idx' = [idx EXCEPT ![r] = @ + 1]
                    /\ rw_readers' = rw_readers
                    /\ IF HasCapacity(queue[r])
                       THEN /\ queue' = [queue EXCEPT ![r] = Append(@, msg)]
                            /\ UNCHANGED << rpc, pending >>
                       ELSE /\ pending' = [pending EXCEPT ![r] = msg]
                            /\ rpc' = [rpc EXCEPT ![r] = "sending"]
                            /\ queue' = queue
    /\ UNCHANGED << env_vars, stream, budget, inner_owner, run_result, cur, nev,
                    taken, reader_exit, writer_vars, reload_vars >>

\* queue.send(..).await resumes once the writer has made room
ReaderResume(r) ==
    /\ Running(r) /\ rpc[r] = "sending"
    /\ HasCapacity(queue[r])
    /\ queue' = [queue EXCEPT ![r] = Append(@, pending[r])]
    /\ pending' = [pending EXCEPT ![r] = NoMessage]
    /\ rpc' = [rpc EXCEPT ![r] = "fanout"]
    /\ UNCHANGED << env_vars, stream, budget, inner_owner, run_result, cur, idx,
                    nev, built, rw_readers, taken, reader_exit, writer_vars,
                    reload_vars >>

\* -------------------------------------------------------------- run_writer
\* queue.recv().await yields Some(message)
WriterRecv(r) ==
    /\ Running(r) /\ wpc[r] = "recv"
    /\ queue[r] # <<>>
    /\ wmsg' = [wmsg EXCEPT ![r] = queue[r][recv_index(queue[r])]]
    /\ queue' = [queue EXCEPT ![r] = RemoveAt(@, recv_index(@))]
    /\ wpc' = [wpc EXCEPT ![r] = "lock"]
    /\ UNCHANGED << env_vars, stream, budget, inner_owner, run_result, reader_vars,
                    in_flight, calls, call_failed, reload_vars >>

\* self.inner.lock().await, then the call is issued: perform_action for an
\* Action, send_message for a Message
WriterLock(r) ==
    /\ Running(r) /\ wpc[r] = "lock"
    /\ inner_owner[r] = "none"
    /\ inner_owner' = [inner_owner EXCEPT ![r] = "writer"]
    /\ calls' = [calls EXCEPT ![r] = Record(@, wmsg[r])]
    /\ in_flight' = [in_flight EXCEPT ![r] = rpc_for(wmsg[r].kind)]
    /\ wpc' = [wpc EXCEPT ![r] = "call"]
    /\ UNCHANGED << env_vars, stream, budget, queue, run_result, reader_vars,
                    wmsg, call_failed, reload_vars >>

\* the event by which the backend reports a call to every subscriber
EchoEvent(r, m) ==
    BackendEvent(IF m.kind = "Action" THEN "PerformAction" ELSE "SendMessage",
                 NoTags, ConfigTag(r), Request(m.channel_id, m.text))

\* the call returns Ok: the guard is dropped at the end of the match arm
WriterCallOk(r) ==
    /\ Running(r) /\ wpc[r] = "call"
    /\ inner_owner' = [inner_owner EXCEPT ![r] = drop_writer_guard(@)]
    /\ wpc' = [wpc EXCEPT ![r] = "recv"]
    /\ wmsg' = [wmsg EXCEPT ![r] = NoMessage]
    /\ in_flight' = [in_flight EXCEPT ![r] = "none"]
    /\ stream' = IF backend_echo
                 THEN [s \in Relay |-> IF s \in live
                                       THEN Append(stream[s], EchoEvent(r, wmsg[r]))
                                       ELSE stream[s]]
                 ELSE stream
    /\ UNCHANGED << env_vars, budget, queue, run_result, reader_vars, calls,
                    call_failed, reload_vars >>

\* the call returns Err: `?` makes run_writer return it, and run with it
WriterCallFails(r) ==
    /\ Running(r) /\ wpc[r] = "call"
    /\ call_failed' = [call_failed EXCEPT ![r] = TRUE]
    /\ RunFails(r)
    /\ UNCHANGED << env_vars, stream, budget, queue, rpc, cur, idx, pending, nev,
                    built, taken, reader_exit, wpc, wmsg, in_flight, calls,
                    reload_vars >>

\* ------------------------------------------------- reload task, main.rs:103
\* *guard = proxied_channels
\* (faulty variant: the new targets appended to the old ones)
Install_Extend(old, new) ==
    [c \in DOMAIN old \cup DOMAIN new |->
        unwrap_or(get(old, c), <<>>) \o unwrap_or(get(new, c), <<>>)]
Install(old, new) == new

\* SIGHUP arrives and read_config returns Ok: set_proxied_channels is called
\* and asks for the write lock
ReloadRead(r) ==
    /\ Running(r) /\ reload_pc[r] = "idle"
    /\ nreload[r] < MaxReloads
    /\ nreload' = [nreload EXCEPT ![r] = @ + 1]
    /\ \E t \in Tables : reload_arg' = [reload_arg EXCEPT ![r] = t]
    /\ reload_pc' = [reload_pc EXCEPT ![r] = "write"]
    /\ UNCHANGED << env_vars, stream, budget, inner_owner, queue, run_result,
                    reader_vars, writer_vars, proxied_channels, installed >>

\* the Err arm of the reload task's match on read_config: a warning
\* (faulty variant: the table is emptied when the file cannot be read)
on_reload_err_Clears(table) == EmptyTable
on_reload_err(table) == table

\* SIGHUP arrives and read_config returns Err
ReloadReadFails(r) ==
    /\ Running(r) /\ reload_pc[r] = "idle"
    /\ nreload[r] < MaxReloads
    /\ nreload' = [nreload EXCEPT ![r] = @ + 1]
    /\ proxied_channels' = [proxied_channels EXCEPT ![r] = on_reload_err(@)]
    /\ UNCHANGED << env_vars, stream, budget, inner_owner, queue, run_result,
                    reader_vars, writer_vars, installed, reload_pc, reload_arg >>

\* set_proxied_channels: the write guard is granted, the map replaced, the
\* guard dropped
set_proxied_channels(r) ==
    /\ Running(r) /\ reload_pc[r] = "write"
    /\ WriteGranted(r)
    /\ proxied_channels' =
          [proxied_channels EXCEPT ![r] = Install(@, reload_arg[r])]
    /\ installed' = [installed EXCEPT ![r] = Append(@, reload_arg[r])]
    /\ reload_pc' = [reload_pc EXCEPT ![r] = "idle"]
    /\ reload_arg' = [reload_arg EXCEPT ![r] = EmptyTable]
    /\ UNCHANGED << env_vars, stream, budget, inner_owner, queue, run_result,
                    reader_vars, writer_vars, nreload >>

\* ---------------------------------------------------------- specifications
Next ==
    \E r \in Relay :
       \/ ReaderLockInner(r)
       \/ ReaderSubscribed(r)
       \/ ReaderSubscribeFails(r)
       \/ ReaderNext(r)
       \/ ReaderStreamEnds(r)
       \/ ReaderAcquireRead(r)
       \/ ReaderFanout(r)
       \/ ReaderResume(r)
       \/ WriterRecv(r)
       \/ WriterLock(r)
       \/ WriterCallOk(r)
       \/ WriterCallFails(r)
       \/ ReloadRead(r)
       \/ ReloadReadFails(r)
       \/ set_proxied_channels(r)

Spec == Init /\ [][Next]_vars

\* Two relays, A (#x to #y) and B (#y to #x), on one backend that reports
\* every dispatched call to both; one user-authored message in #x is queued
\* on both streams.  Streams, calls and configuration do not fail here.
InitPair ==
    /\ live = {"A", "B"}
    /\ backend_echo = TRUE
    /\ stream = [r \in Relay |-> << UserEvent("Message", NoTags, "#x", "") >>]
    /\ budget = [r \in Relay |-> 0]
    /\ InitWith([r \in Relay |-> PairTable(r)])

RelayStep(r) ==
    \/ ReaderLockInner(r)
    \/ ReaderSubscribed(r)
    \/ ReaderNext(r)
    \/ ReaderFanout(r)
    \/ WriterRecv(r)
    \/ WriterLock(r)
    \/ WriterCallOk(r)

NextPair == \E r \in Relay : RelayStep(r)

\* Both relays keep being scheduled: tokio polls a task that can make
\* progress, and the backend answers every call.
SpecPair == InitPair /\ [][NextPair]_vars /\ \A r \in Relay : WF_vars(RelayStep(r))

\* The events of a stream the backend has queued in full before the relay
\* reads it: the three malformed events, two routable messages and an action
\* another client asked for.
StreamEvents ==
    { Event("None", NoTags, None, "", "", "", "", None),
      Event("Message", NoTags, None, "hi", "", "", "", None),
      Event("Message", NoTags, Source("#a", None), "hi", "", "", "", None),
      UserEvent("Message", NoTags, "#a", ""),
      UserEvent("Message", NoTags, "#b", ""),
      BackendEvent("PerformAction", NoTags, "other", Request("#a", "hi")) }

QueuedStreams == [1..(MaxEvents + 1) -> StreamEvents]

\* One relay, A, whose stream holds MaxEvents + 1 events from the start.
InitStream ==
    /\ live = {"A"}
    /\ backend_echo = FALSE
    /\ \E s \in QueuedStreams :
          stream = [r \in Relay |-> IF r = "A" THEN s ELSE <<>>]
    /\ budget = [r \in Relay |-> 0]
    /\ \E t \in Tables : InitWith([r \in Relay |-> IF r = "A" THEN t ELSE EmptyTable])

SpecStream == InitStream /\ [][Next]_vars

\* One relay, A, whose table has a cycle (#a to #b and #c, #b to #a), on a
\* backend that reports every dispatched call to its subscribers; the stream
\* holds MaxEvents + 1 user-authored events from the start.  The stream, the
\* calls and the configuration do not fail here, and no reload is asked for.
CycleTable == TableBC

CycleEvents ==
    { UserEvent("Message", NoTags, "#a", ""),
      UserEvent("Message", NoTags, "#b", ""),
      UserEvent("Action", NoTags, "#a", "") }

InitCycle ==
    /\ live = {"A"}
    /\ backend_echo = TRUE
    /\ \E s \in [1..(MaxEvents + 1) -> CycleEvents] :
          stream = [r \in Relay |-> IF r = "A" THEN s ELSE <<>>]
    /\ budget = [r \in Relay |-> 0]
    /\ InitWith([r \in Relay |-> IF r = "A" THEN CycleTable ELSE EmptyTable])

\* the steps of the reader task and of the Dispatcher task
ReaderStep(r) ==
    \/ ReaderLockInner(r)
    \/ ReaderSubscribed(r)
    \/ ReaderNext(r)
    \/ ReaderFanout(r)
    \/ ReaderResume(r)

WriterStep(r) ==
    \/ WriterRecv(r)
    \/ WriterLock(r)
    \/ WriterCallOk(r)

NextCycle == \E r \in Relay : ReaderStep(r) \/ WriterStep(r)

\* Both futures of run keep being polled while they can make progress, and
\* the backend answers every call.
SpecCycle ==
    /\ InitCycle /\ [][NextCycle]_vars
    /\ \A r \in Relay : WF_vars(ReaderStep(r)) /\ WF_vars(WriterStep(r))

\* One relay, A, that starts with three targets for #a, so that with a call
\* in flight and the queue full a third message keeps the reader suspended;
\* its stream holds MaxEvents + 1 events, and reloads install the tables of
\* Tables.  The stream, the subscription and the calls do not fail here: the
\* reader, the Dispatcher and a set_proxied_channels that has been called
\* keep being polled while they can make progress.  The arrival of a SIGHUP
\* is not forced.
TableWide == "#a" :> << ChannelTarget("#b", None, None),
                        ChannelTarget("#c", None, None),
                        ChannelTarget("#d", None, None) >>

LiveEvents ==
    { UserEvent("Message", NoTags, "#a", ""),
      UserEvent("Message", NoTags, "#b", "") }

InitLive ==
    /\ live = {"A"}
    /\ backend_echo = FALSE
    /\ \E s \in [1..(MaxEvents + 1) -> LiveEvents] :
          stream = [r \in Relay |-> IF r = "A" THEN s ELSE <<>>]
    /\ budget = [r \in Relay |-> 0]
    /\ InitWith([r \in Relay |-> IF r = "A" THEN TableWide ELSE EmptyTable])

ReloadStep(r) ==
    \/ ReloadRead(r)
    \/ ReloadReadFails(r)
    \/ set_proxied_channels(r)

NextLive ==
    \E r \in Relay :
       \/ ReaderStep(r)
       \/ ReaderAcquireRead(r)
       \/ WriterStep(r)
       \/ ReloadStep(r)

SpecLive ==
    /\ InitLive /\ [][NextLive]_vars
    /\ \A r \in Relay :
          /\ WF_vars(ReaderStep(r) \/ ReaderAcquireRead(r))
          /\ WF_vars(WriterStep(r))
          /\ WF_vars(set_proxied_channels(r))

\* ================================================================== claims
Range(f) == { f[i] : i \in DOMAIN f }
IsPrefix(p, q) == Len(p) <= Len(q) /\ SubSeq(q, 1, Len(p)) = p
HasSkipTag(e) == <<"proxy/skip", "1">> \in e.tags
IsOwnEcho(r, e) ==
    e.variant \in {"SendMessage", "PerformAction"} /\ e.sender = ConfigTag(r)
\* the reader has finished handling its current event
Handled(r) == nev[r] >= 1 /\ rpc[r] = "next"

\* C1: no OutgoingMessage is built, and no backend call issued, for an event
\* whose tag map has "proxy/skip" = "1", whatever its variant and routing.
C1_SkipTagNeverRelayed ==
    \A r \in live :
       /\ \A m \in Range(built[r]) : ~HasSkipTag(m.origin)
       /\ \A m \in Range(calls[r]) : ~HasSkipTag(m.origin)

\* C2: no OutgoingMessage is ever built for a SendMessage / PerformAction
\* event whose sender is the relay's own tag, and the reader never asks for
\* the routing table on behalf of such an event.
C2_OwnSenderNeverRelayed ==
    \A r \in live :
       /\ \A m \in Range(built[r]) : ~IsOwnEcho(r, m.origin)
       /\ IsOwnEcho(r, cur[r]) => rpc[r] \notin {"rdlock", "fanout", "sending"}

\* C2 witness: an own-sender SendMessage whose channel the installed table
\* routes has been handled, and nothing was built.
C2_Witness ==
    /\ Handled("A") /\ IsOwnEcho("A", cur["A"])
    /\ cur["A"].inner # None
    /\ cur["A"].inner[1].channel_id \in DOMAIN proxied_channels["A"]
    /\ built["A"] = <<>>

\* C3: with relays A (#x to #y) and B (#y to #x) and a backend that reports
\* every call, one user-authored event leads to finitely many backend calls:
\* from some point on no call is in flight any more.
C3_FinitelyManyCalls == <>[](\A r \in Relay : wpc[r] # "call")

\* C4: no OutgoingMessage is ever built for a private-message variant.
C4_PrivateNeverRelayed ==
    \A r \in live :
       /\ \A m \in Range(built[r]) :
             m.origin.variant \notin {"PrivateMessage", "PrivateAction",
                                      "SendPrivateMessage", "PerformPrivateAction"}
       /\ cur[r].variant \in {"PrivateMessage", "PrivateAction",
                              "SendPrivateMessage", "PerformPrivateAction"}
            => rpc[r] \notin {"rdlock", "fanout", "sending"}

\* C4 witness: a PrivateMessage whose channel is routed has been handled.
C4_Witness ==
    /\ Handled("A") /\ cur["A"].variant = "PrivateMessage"
    /\ cur["A"].source[1].channel_id \in DOMAIN proxied_channels["A"]
    /\ built["A"] = <<>>

Wire(m) == [kind |-> m.kind, channel_id |-> m.channel_id, text |-> m.text]
BuiltFor(r, k) ==
    LET ofk(m) == m.ev = k
        ms == SelectSeq(built[r], ofk)
    IN  [i \in 1..Len(ms) |-> Wire(ms[i])]

\* the fan-out of event e under table t, taken whole
FanOut(r, e, t) ==
    LET plan == handle_event(e, ConfigTag(r))
        channels == IF e.variant = "None" \/ plan.act \in {"ok", "err"}
                    THEN <<>>
                    ELSE unwrap_or(get(t, plan.source), <<>>)
    IN  [i \in 1..Len(channels) |->
            Wire(BuildMessage(e, plan.act, channels[i], 0, i))]

\* C6: what is enqueued for one event is the fan-out of that event under one
\* table that was installed whole: a prefix of it while the event is being
\* handled, all of it once the handler has returned.
C6_FanOutUnderOneTable ==
    \A r \in live : \A k \in 1..nev[r] :
       LET ms == BuiltFor(r, k)
           known == k = nev[r] \/ ms # <<>>
           e == IF k = nev[r] THEN cur[r]
                ELSE (CHOOSE m \in Range(built[r]) : m.ev = k).origin
           done == k < nev[r] \/ rpc[r] = "next"
       IN  known =>
             \E t \in Range(installed[r]) :
                /\ IsPrefix(ms, FanOut(r, e, t))
                /\ done => ms = FanOut(r, e, t)

\* C6 witness: a reload with a different table is waiting for the write lock
\* while the reader is in the middle of a fan-out.
C6_Witness ==
    /\ rpc["A"] \in {"fanout", "sending"} /\ Len(built["A"]) = 1
    /\ Len(proxied_channels["A"]["#a"]) = 2
    /\ reload_pc["A"] = "write"
    /\ reload_arg["A"] # proxied_channels["A"]

\* C7: a failed backend call does not stop the Dispatcher: after a call has
\* failed while a message of the same fan-out is queued behind it, run is
\* still running (so that the queued message can be sent).
C7_FailedCallKeepsDispatcher ==
    \A r \in live :
       (call_failed[r] /\ \E m \in Range(queue[r]) : m.ev = wmsg[r].ev)
          => run_result[r] = "running"

\* C8: the queue never exceeds its capacity, and every message built is, in
\* build order, taken by the Dispatcher, in the queue, or held by the reader
\* suspended in send.
C8_BoundedAndNothingDropped ==
    \A r \in live :
       /\ Len(queue[r]) <= QueueCapacity
       /\ built[r] = calls[r]
                     \o (IF wpc[r] = "lock" THEN << wmsg[r] >> ELSE <<>>)
                     \o queue[r]
                     \o (IF rpc[r] = "sending" THEN << pending[r] >> ELSE <<>>)

\* C8 witness: the queue is full and the reader is suspended with a message.
C8_Witness ==
    /\ run_result["A"] = "running"
    /\ Len(queue["A"]) = QueueCapacity
    /\ rpc["A"] = "sending" /\ pending["A"] # NoMessage

\* C9: installing a table equal to the installed one leaves the routing
\* table as it was.
C9_ReinstallIsIdempotent ==
    [][\A r \in Relay :
         (reload_pc[r] = "write" /\ reload_pc'[r] = "idle"
            /\ reload_arg[r] = proxied_channels[r])
         => proxied_channels'[r] = proxied_channels[r]]_vars

\* C9 witness: the table installed at start was installed a second time, and
\* the reader, having taken the read guard after that, is about to route an
\* event by it.
C9_Witness ==
    /\ Len(installed["A"]) = 2 /\ installed["A"][1] = installed["A"][2]
    /\ proxied_channels["A"] = installed["A"][1]
    /\ rpc["A"] = "fanout" /\ built["A"] = <<>>
    /\ FanOut("A", cur["A"], proxied_channels["A"]) # <<>>

\* the text the templates of the formatting rules give
Affix(o) == IF o = <<>> THEN "" ELSE o[1]
Template(e, target) ==
    LET who == Affix(target.user_prefix) \o e.source[1].user[1].display_name
                 \o Affix(target.user_suffix)
    IN  IF e.variant = "Message" THEN who \o ": " \o e.text
        ELSE IF e.arg = "" THEN who \o ": !" \o e.command
        ELSE who \o ": !" \o e.command \o " " \o e.arg

\* C10: each message built for a Message or Command event goes to a target
\* of the event's source channel in an installed table and carries the
\* variant's template with that target's prefix and suffix; for alice in #a
\* and target #b with suffix "[x]" the texts are "alice[x]: hi",
\* "alice[x]: !ping" and "alice[x]: !ping 1 2".
C10_TextFollowsTemplate ==
    \A r \in live : \A m \in Range(built[r]) :
       m.origin.variant \in {"Message", "Command"} =>
          /\ \E t \in Range(installed[r]) :
                LET s == m.origin.source[1].channel_id
                IN  /\ s \in DOMAIN t /\ m.ti \in 1..Len(t[s])
                    /\ m.channel_id = t[s][m.ti].id
                    /\ m.text = Template(m.origin, t[s][m.ti])
          /\ (Range(installed[r]) = {TableX} /\ m.origin.source[1].channel_id = "#a") =>
                /\ m.channel_id = "#b"
                /\ m.text = (CASE m.origin.variant = "Message" -> "alice[x]: hi"
                               [] m.origin.arg = "" -> "alice[x]: !ping"
                               [] OTHER -> "alice[x]: !ping 1 2")

\* C10 witness: with table {#a: [#b, suffix "[x]"]} a Message from alice in
\* #a has been handled and the single message is {#b, "alice[x]: hi"}.
C10_Witness ==
    /\ installed["A"] = << TableX >> /\ Handled("A")
    /\ cur["A"] = UserEvent("Message", NoTags, "#a", "")
    /\ BuiltFor("A", 1) =
          << [kind |-> "Message", channel_id |-> "#b", text |-> "alice[x]: hi"] >>

\* C11: run never returns success, and it returns the failure as soon as the
\* reader or the Dispatcher fails: run has returned exactly when one of the
\* two has returned an Err, and its result is then an error.
C11_RunReturnsOnlyErrors ==
    \A r \in live :
       /\ run_result[r] \in {"running", "err"}
       /\ run_result[r] = "err" <=> (reader_exit[r] # "none" \/ call_failed[r])

\* C11 witness: the stream has ended while a message was still queued for
\* the Dispatcher, and run has returned.
C11_Witness ==
    /\ reader_exit["A"] = "stream" /\ queue["A"] # <<>>
    /\ run_result["A"] # "running"

\* C12: once the event stream has yielded an error or ended, run has
\* returned an error, and the reader takes no further event and builds or
\* enqueues no further message.
C12_StreamEndIsFatal ==
    /\ [](\A r \in Relay : reader_exit[r] = "stream" => run_result[r] = "err")
    /\ [][\A r \in Relay :
            reader_exit[r] = "stream" =>
               /\ nev'[r] = nev[r] /\ cur'[r] = cur[r] /\ rpc'[r] = rpc[r]
               /\ built'[r] = built[r] /\ queue'[r] = queue[r]
               /\ budget'[r] = budget[r] /\ stream'[r] = stream[r]]_vars

\* C12 witness: the stream has ended while the backend had a further event
\* to deliver, and run has returned.
C12_Witness ==
    /\ reader_exit["A"] = "stream" /\ run_result["A"] = "err"
    /\ budget["A"] > 0

\* an event without variant payload, without source, or without source user
Malformed(e) ==
    \/ e.variant = "None"
    \/ /\ e.variant \in {"Action", "Message", "Command", "Mention"}
       /\ (e.source = None \/ e.source[1].user = None)

\* C13: a malformed event is recovered locally.  Nothing is built for it; run
\* ends only by a stream end, a failed subscription or a failed call, never
\* by the event; the events are taken in the order the stream holds them, and
\* each well-formed event handled after it gets its whole fan-out.
C13_MalformedEventRecovered ==
    /\ [](\A r \in live :
            /\ Len(taken[r]) = nev[r]
            /\ nev[r] >= 1 => cur[r] = taken[r][nev[r]]
            /\ run_result[r] = "err" => (reader_exit[r] # "none" \/ call_failed[r])
            /\ \A k \in 1..Len(taken[r]) :
                  IF Malformed(taken[r][k])
                  THEN BuiltFor(r, k) = <<>>
                  ELSE (k < nev[r] \/ rpc[r] = "next") =>
                          \E t \in Range(installed[r]) :
                             BuiltFor(r, k) = FanOut(r, taken[r][k], t))
    /\ [][\A r \in Relay :
            taken'[r] # taken[r] =>
               /\ stream[r] # <<>>
               /\ taken'[r] = Append(taken[r], Head(stream[r]))
               /\ stream'[r] = Tail(stream[r])]_vars

\* C13 witness: the first event of the stream had no source user, the second
\* was a Message in a routed channel; both were handled and the only messages
\* built are those of the second.
C13_Witness ==
    /\ Len(taken["A"]) = 2 /\ Handled("A") /\ run_result["A"] = "running"
    /\ taken["A"][1].source # None /\ taken["A"][1].source[1].user = None
    /\ taken["A"][2] = UserEvent("Message", NoTags, "#a", "")
    /\ BuiltFor("A", 1) = <<>> /\ BuiltFor("A", 2) # <<>>

\* C14: a reload whose configuration cannot be read leaves the routing table
\* as installed.  The step of the failed reload changes neither the table
\* nor the list of installed tables and leaves the reload task waiting for
\* the next signal; the table in use is always the last one installed, and
\* as long as no reload has succeeded events are routed by the first table.
C14_FailedReloadKeepsTable ==
    /\ [](\A r \in live :
            /\ proxied_channels[r] = installed[r][Len(installed[r])]
            /\ (Len(installed[r]) = 1 /\ Handled(r)) =>
                  BuiltFor(r, nev[r]) = FanOut(r, cur[r], installed[r][1]))
    /\ [][\A r \in Relay :
            (nreload'[r] # nreload[r] /\ reload_pc'[r] # "write") =>
               /\ proxied_channels'[r] = proxied_channels[r]
               /\ installed'[r] = installed[r]
               /\ reload_pc'[r] = "idle" /\ reload_arg'[r] = reload_arg[r]]_vars

\* C14 witness: the only reload has failed, and the reader, holding the read
\* guard, is about to route an event by the table installed at start.
C14_Witness ==
    /\ nreload["A"] = 1 /\ Len(installed["A"]) = 1 /\ reload_pc["A"] = "idle"
    /\ rpc["A"] = "fanout" /\ built["A"] = <<>>
    /\ FanOut("A", cur["A"], installed["A"][1]) # <<>>

\* the messages the reader has put into the queue, in the order of its sends
Enqueued(r) ==
    IF rpc[r] = "sending" THEN SubSeq(built[r], 1, Len(built[r]) - 1) ELSE built[r]

C16_OneUserOfTheHandle ==
    \A r \in live :
       run_result[r] = "running" =>
          /\ inner_owner[r] = "reader" <=> rpc[r] = "subscribing"
          /\ inner_owner[r] = "writer" <=> wpc[r] = "call"
          /\ in_flight[r] # "none" <=> wpc[r] = "call"
          /\ ~(rpc[r] = "subscribing" /\ wpc[r] = "call")
          /\ rpc[r] \notin {"start", "subscribing"} =>
                inner_owner[r] \in {"none", "writer"}

\* C16 witness: a call of the Dispatcher is in flight while the reader is in
\* the middle of a fan-out.
C16_Witness ==
    /\ run_result["A"] = "running"
    /\ wpc["A"] = "call" /\ inner_owner["A"] = "writer"
    /\ rpc["A"] \in {"fanout", "sending"}

\* C17: routing-table lookups never block a writer of the table: whenever
\* set_proxied_channels has been called and has not yet swapped the table,
\* no read guard of the reader stands in its way, be the reader in the
\* middle of a fan-out or suspended on a full queue.
C17_LookupsNeverBlockWriter ==
    \A r \in live :
       (run_result[r] = "running" /\ reload_pc[r] = "write") => rw_readers[r] = 0

\* the calls a relay has issued for its event number k
CallsFor(r, k) ==
    LET ofk(m) == m.ev = k
    IN  SelectSeq(calls[r], ofk)

\* nothing is left to do: stream and queue are empty, both tasks wait
Quiescent(r) ==
    /\ stream[r] = <<>> /\ rpc[r] = "next"
    /\ queue[r] = <<>> /\ wpc[r] = "recv"

\* C18: with one relay, a table with a cycle and a backend that reports each
\* call under the relay's own tag, every call is made for a user-authored
\* event, never for an echo; an event never has more calls than its source
\* channel has targets, and once everything has been handled each of the
\* MaxEvents + 1 user events has exactly that many.
C18_CycleIsNotAmplified ==
    \A r \in live :
       /\ \A m \in Range(calls[r]) :
             /\ m.origin.variant \notin {"SendMessage", "PerformAction"}
             /\ m.ev \in 1..(MaxEvents + 1)
             /\ Len(CallsFor(r, m.ev)) <=
                   Len(CycleTable[m.origin.source[1].channel_id])
       /\ Quiescent(r) =>
             \A k \in 1..(MaxEvents + 1) :
                \E m \in Range(calls[r]) :
                   /\ m.ev = k
                   /\ Len(CallsFor(r, k)) =
                         Len(CycleTable[m.origin.source[1].channel_id])

\* C18 witness: a Message in #a and one in #b led to three calls, all echoes
\* were taken from the stream, and nothing is left to do.
C18_Witness ==
    /\ Quiescent("A") /\ Len(calls["A"]) = 3
    /\ IsOwnEcho("A", cur["A"])
    /\ calls["A"][1].origin = UserEvent("Message", NoTags, "#a", "")
    /\ calls["A"][3].origin = UserEvent("Message", NoTags, "#b", "")

\* the messages the relay of SpecCycle can build
CycleMessages ==
    UNION { { BuildMessage(e, "send_msg", CycleTable[e.source[1].channel_id][ti], k, ti) :
                ti \in 1..Len(CycleTable[e.source[1].channel_id]) } :
            e \in CycleEvents, k \in 1..(MaxEvents + 1) }

\* C19: the reader owns the handle lock only while it awaits stream_events: it
\* has released it before it takes the first event and never owns it while
\* it waits for the stream, the table or the queue.  With both tasks polled
\* fairly and calls that return, the message at the head of the queue is
\* eventually the one whose call the Dispatcher has in flight, the handle
\* lock being the Dispatcher's.
C19_ReaderDoesNotStarveDispatcher ==
    /\ [](\A r \in live :
            /\ inner_owner[r] = "reader" => (rpc[r] = "subscribing" /\ nev[r] = 0)
            /\ rpc[r] \in {"next", "rdlock", "fanout", "sending"} =>
                  inner_owner[r] # "reader")
    /\ \A m \in CycleMessages :
          (queue["A"] # <<>> /\ Head(queue["A"]) = m)
             ~> (wpc["A"] = "call" /\ wmsg["A"] = m /\ inner_owner["A"] = "writer")

\* C19 witness: the reader is suspended on the full queue while the
\* Dispatcher, owning the handle lock, has a call in flight.
C19_Witness ==
    /\ rpc["A"] = "sending" /\ queue["A"] # <<>> /\ Head(queue["A"]) \in CycleMessages
    /\ wpc["A"] = "call" /\ inner_owner["A"] = "writer"

\* a task waits for a lock or for room in the queue
Waiting(r) ==
    \/ rpc[r] \in {"rdlock", "sending"}
    \/ wpc[r] = "lock"
    \/ reload_pc[r] = "write"

\* C20: reader, Dispatcher and reload task do not deadlock.  Whenever one of
\* them waits for a lock or for the queue, some task can take a step; and
\* with calls that return, a reader suspended on the full queue goes on to
\* end its fan-out and release the read guard, a reader waiting for the read
\* guard gets it, and a reload waiting for the write guard installs its table.
C20_NoDeadlock ==
    /\ [](Waiting("A") =>
            ENABLED (ReaderStep("A") \/ ReaderAcquireRead("A")
                       \/ WriterStep("A") \/ set_proxied_channels("A")))
    /\ (rpc["A"] = "sending") ~> (rpc["A"] = "next" /\ rw_readers["A"] = 0)
    /\ (rpc["A"] = "rdlock") ~> (rpc["A"] = "fanout")
    /\ (reload_pc["A"] = "write") ~> (reload_pc["A"] = "idle")

\* C20 witness: the reader, holding the read guard, is suspended on the full
\* queue, the Dispatcher holds the handle lock for a call in flight, and a
\* reload waits for the write guard.
C20_Witness ==
    /\ rpc["A"] = "sending" /\ rw_readers["A"] = 1
    /\ Len(queue["A"]) = QueueCapacity
    /\ wpc["A"] = "call" /\ inner_owner["A"] = "writer"
    /\ reload_pc["A"] = "write"

====
